---- MODULE Spec2Model ----
(***************************************************************************)
(* State-machine model of the AI Text Summarizer: the App component        *)
(* (src/App.tsx), its SummaryOutput child with the copy indicator, and the *)
(* summarizeText client (src/services/geminiService.ts).                   *)
(*                                                                         *)
(* JavaScript runs one task at a time: an action is one event handler, or  *)
(* one continuation after an await, run to its next suspension point.      *)
(* Strings are TLA+ strings; trim and startsWith are computed character by *)
(* character.                                                              *)
(***************************************************************************)
EXTENDS Integers, Sequences, FiniteSets

VARIABLES
    inputText,      \* App state: useState('')                 App.tsx:72
    summary,        \* App state: useState('')                 App.tsx:73
    isLoading,      \* App state: useState(false)              App.tsx:74
    error,          \* App state: useState('')                 App.tsx:75
    summaryLength,  \* App state: useState(SummaryLength.MEDIUM) App.tsx:76
    copied,         \* SummaryOutput state: useState(false)    App.tsx:45
    timers,         \* pending setTimeout callbacks            App.tsx:50
    clipboard,      \* system clipboard content                App.tsx:48
    calls,          \* handleSubmit invocations suspended at their await
    apiKey,         \* process.env.API_KEY                     geminiService.ts:30
    apiCalled,      \* history: generateContent has been issued at least once
    lastEvent       \* history: the handler or continuation that ran last

vars == <<inputText, summary, isLoading, error, summaryLength, copied, timers,
          clipboard, calls, apiKey, apiCalled, lastEvent>>

appVars == <<inputText, summary, isLoading, error, summaryLength>>

----------------------------------------------------------------------------
(* Bounds of the model *)

\* At most this many handleSubmit invocations are suspended at once.
MaxCalls == 2

\* At most this many setTimeout callbacks are pending at once.
MaxTimers == 2

----------------------------------------------------------------------------
(* Inputs drawn by the environment *)

\* What the user can type into the textarea.
Texts == {"", " \n ", " news ", "story"}

\* Object.values(SummaryLength)
SummaryLengths == {"short", "medium", "long"}

\* What process.env.API_KEY can hold; "" stands for unset or empty (falsy).
ApiKeys == {"", "k-123"}

\* What the model can answer (response.text).
ApiTexts == {"This is a summary.", "Failure is common.", "Failed banks reopen.",
             "An unknown error hit the town.", ""}

\* A thrown value: an Error with a message, or a value that is no Error.
ErrorOf(m) == [isError |-> TRUE, message |-> m]
NonError == [isError |-> FALSE, message |-> ""]
NoException == [isError |-> FALSE, message |-> "none"]

\* What the outbound call can throw.
ApiExceptions == {ErrorOf("timeout"), ErrorOf(""), NonError}

----------------------------------------------------------------------------
(* String functions of the JavaScript runtime *)

IsWhitespace(c) == c \in {" ", "\n", "\t"}

RECURSIVE trimStart(_)
trimStart(s) ==
    IF Len(s) > 0 /\ IsWhitespace(SubSeq(s, 1, 1))
    THEN trimStart(SubSeq(s, 2, Len(s)))
    ELSE s

RECURSIVE trimEnd(_)
trimEnd(s) ==
    IF Len(s) > 0 /\ IsWhitespace(SubSeq(s, Len(s), Len(s)))
    THEN trimEnd(SubSeq(s, 1, Len(s) - 1))
    ELSE s

\* String.prototype.trim
trim(s) == trimEnd(trimStart(s))

\* String.prototype.startsWith
startsWith(s, p) == Len(s) >= Len(p) /\ SubSeq(s, 1, Len(p)) = p

----------------------------------------------------------------------------
(* src/services/geminiService.ts *)

\* getPrompt: the length directive of each SummaryLength.
lengthInstruction(length) ==
    CASE length = "short"  -> "a few concise sentences (around 50 words)"
      [] length = "medium" -> "a detailed paragraph (around 150 words)"
      [] length = "long"   -> "several detailed paragraphs (around 300 words)"
      [] OTHER             -> ""

getPrompt(text, length) ==
    "Please provide an abstractive summary of the following article. "
    \o "The summary should capture the key points and main ideas in your own words, "
    \o "rather than just extracting sentences. The desired length is "
    \o lengthInstruction(length) \o ".\n\nARTICLE:\n---\n" \o text \o "\n---\n\nSUMMARY:"

\* How a promise ends.
Pending == [kind |-> "pending", val |-> "", exc |-> NoException]
Resolved(v) == [kind |-> "resolve", val |-> v, exc |-> NoException]
Rejected(e) == [kind |-> "reject", val |-> "", exc |-> e]

\* Variant: the catch block lets the failure escape.
summarizeTextRethrow(e) == Rejected(e)

\* The catch block of summarizeText: every failure becomes a resolved string.
summarizeTextCatch(e) ==
    IF e.isError
    THEN Resolved("Failed to generate summary. Error: " \o e.message)
    ELSE Resolved("An unknown error occurred while generating the summary.")

\* The missing-credential check of summarizeText.
KeyMissing == apiKey = ""

MissingKeyError == ErrorOf("API_KEY environment variable is not set.")

\* summarizeText(text, length) up to its own await: without a credential the
\* thrown Error is caught at once and no request leaves; with one, the request
\* built from the prompt is in flight.
summarizeTextStart(text, length) ==
    IF KeyMissing
    THEN [pc |-> "settled", client |-> "gemini", outbound |-> FALSE, prompt |-> "",
          caught |-> MissingKeyError, response |-> "",
          settled |-> summarizeTextCatch(MissingKeyError)]
    ELSE [pc |-> "api", client |-> "gemini", outbound |-> TRUE,
          prompt |-> getPrompt(text, length),
          caught |-> NoException, response |-> "", settled |-> Pending]

\* summarizeText after generateContent answered: response.text is returned as is.
summarizeTextReturn(c, text) ==
    [c EXCEPT !.pc = "settled", !.response = text, !.settled = Resolved(text)]

\* summarizeText after generateContent threw.
summarizeTextFail(c, e) ==
    [c EXCEPT !.pc = "settled", !.caught = e, !.settled = summarizeTextCatch(e)]

\* A stand-in client whose promise the test settles as it likes.
stubStart(text, length) ==
    [pc |-> "stub", client |-> "stub", outbound |-> FALSE, prompt |-> "",
     caught |-> NoException, response |-> "", settled |-> Pending]

StubOutcomes ==
    {Resolved(t) : t \in ApiTexts}
    \cup {Resolved("Failed to generate summary. Error: timeout"),
          Resolved("An unknown error occurred while generating the summary.")}
    \cup {Rejected(e) : e \in ApiExceptions}

----------------------------------------------------------------------------
(* src/App.tsx *)

ValidationMessage == "Please enter some text to summarize."
UnexpectedMessage == "An unexpected error occurred."

\* Variant: the textarea is never disabled.
TextareaNeverDisabled == FALSE

\* disabled={isLoading} of the textarea.
TextareaDisabled == isLoading

\* Variant: the button ignores isLoading.
ButtonDisabledNoLoading == trim(inputText) = ""

\* disabled={isLoading || !inputText.trim()} of the submit button.
ButtonDisabled == isLoading \/ trim(inputText) = ""

\* Variant: the check forgets to trim.
InputMissingNoTrim == inputText = ""

\* if (!inputText.trim()) of handleSubmit.
InputMissing == trim(inputText) = ""

\* {summary && !isLoading && <SummaryOutput/>}: whether SummaryOutput is mounted.
Mounted(s, l) == s # "" /\ ~l

\* A continuation of an await is a microtask: it runs before the next event.
MicrotasksIdle == \A i \in 1..Len(calls) : calls[i].pc # "settled"

\* What rendering the new App state does to SummaryOutput: an instance that
\* stays mounted keeps its state, a new one starts with copied = false, and the
\* timers of an unmounted one update nothing any more.
Rerender(s, l) ==
    /\ copied' = IF Mounted(summary, isLoading) /\ Mounted(s, l) THEN copied ELSE FALSE
    /\ timers' = IF Mounted(summary, isLoading) /\ ~Mounted(s, l)
                 THEN [i \in 1..Len(timers) |-> [timers[i] EXCEPT !.live = FALSE]]
                 ELSE timers

\* onChange of the textarea.
SetInputText(t) ==
    /\ ~TextareaDisabled
    /\ MicrotasksIdle
    /\ inputText' = t
    /\ lastEvent' = "input"
    /\ UNCHANGED <<summary, isLoading, error, summaryLength, copied, timers,
                   clipboard, calls, apiKey, apiCalled>>

\* onClick of a length button.
SetSummaryLength(len) ==
    /\ MicrotasksIdle
    /\ summaryLength' = len
    /\ lastEvent' = "length"
    /\ UNCHANGED <<inputText, summary, isLoading, error, copied, timers,
                   clipboard, calls, apiKey, apiCalled>>

\* Variants: a new request leaves the old error, or the old summary, in place.
SubmitStartKeepError == [isLoading |-> TRUE, error |-> error, summary |-> ""]

SubmitStartKeepSummary == [isLoading |-> TRUE, error |-> "", summary |-> summary]

\* setIsLoading(true); setError(''); setSummary('') of handleSubmit.
SubmitStart == [isLoading |-> TRUE, error |-> "", summary |-> ""]

\* The summarizeText that App imports: the real client, or a stand-in.
clientStart(client, text, length) ==
    IF client = "gemini"
    THEN summarizeTextStart(text, length)
    ELSE stubStart(text, length)

\* handleSubmit up to its await, with the given client behind summarizeText.
handleSubmit(client) ==
    /\ lastEvent' = "submit"
    /\ UNCHANGED <<inputText, summaryLength, clipboard, apiKey>>
    /\ IF InputMissing
       THEN /\ error' = ValidationMessage
            /\ UNCHANGED <<summary, isLoading, copied, timers, calls, apiCalled>>
       ELSE /\ Len(calls) < MaxCalls
            /\ isLoading' = SubmitStart.isLoading
            /\ error' = SubmitStart.error
            /\ summary' = SubmitStart.summary
            /\ Rerender(SubmitStart.summary, SubmitStart.isLoading)
            /\ calls' = Append(calls, clientStart(client, inputText, summaryLength))
            /\ apiCalled' =
                 (apiCalled \/ clientStart(client, inputText, summaryLength).outbound)

\* A click on the submit button, which a disabled button does not deliver.
ClickSubmit ==
    /\ ~ButtonDisabled
    /\ MicrotasksIdle
    /\ handleSubmit("gemini")

\* handleSubmit called as a function, whatever the button shows.
InvokeSubmit ==
    /\ MicrotasksIdle
    /\ handleSubmit("gemini")

\* A click on the submit button of an App wired to the stand-in client.
ClickSubmitStub ==
    /\ ~ButtonDisabled
    /\ MicrotasksIdle
    /\ handleSubmit("stub")

\* generateContent answers with a text.
ApiRespond(i, text) ==
    /\ calls[i].pc = "api"
    /\ MicrotasksIdle
    /\ calls' = [calls EXCEPT ![i] = summarizeTextReturn(calls[i], text)]
    /\ lastEvent' = "api"
    /\ UNCHANGED <<appVars, copied, timers, clipboard, apiKey, apiCalled>>

\* generateContent throws.
ApiThrow(i, e) ==
    /\ calls[i].pc = "api"
    /\ MicrotasksIdle
    /\ calls' = [calls EXCEPT ![i] = summarizeTextFail(calls[i], e)]
    /\ lastEvent' = "api"
    /\ UNCHANGED <<appVars, copied, timers, clipboard, apiKey, apiCalled>>

\* The stand-in client's promise is settled.
StubSettle(i, o) ==
    /\ calls[i].pc = "stub"
    /\ MicrotasksIdle
    /\ calls' = [calls EXCEPT ![i].pc = "settled", ![i].settled = o]
    /\ lastEvent' = "api"
    /\ UNCHANGED <<appVars, copied, timers, clipboard, apiKey, apiCalled>>

\* Variant: a shorter failure prefix.
isFailureLoose(result) ==
    startsWith(result, "Fail") \/ startsWith(result, "An unknown error")

\* result.startsWith('Failed') || result.startsWith('An unknown error')
isFailure(result) ==
    startsWith(result, "Failed") \/ startsWith(result, "An unknown error")

\* Variant: the catch block ignores the exception's message.
catchMessageGeneric(e) == UnexpectedMessage

\* e instanceof Error ? e.message : 'An unexpected error occurred.'
catchMessage(e) == IF e.isError THEN e.message ELSE UnexpectedMessage

\* The try/catch of handleSubmit after the await: the state it sets.
Completion(o) ==
    IF o.kind = "resolve"
    THEN IF isFailure(o.val)
         THEN [error |-> o.val, summary |-> summary]
         ELSE [error |-> error, summary |-> o.val]
    ELSE [error |-> catchMessage(o.exc), summary |-> summary]

\* Variant: the loading flag is never reset.
FinallyLoadingStuck == isLoading

\* finally { setIsLoading(false) }
FinallyLoading == FALSE

RemoveAt(q, i) == SubSeq(q, 1, i - 1) \o SubSeq(q, i + 1, Len(q))

\* handleSubmit resumes after its await.
Resume(i) ==
    /\ calls[i].pc = "settled"
    /\ error' = Completion(calls[i].settled).error
    /\ summary' = Completion(calls[i].settled).summary
    /\ isLoading' = FinallyLoading
    /\ Rerender(Completion(calls[i].settled).summary, FinallyLoading)
    /\ calls' = RemoveAt(calls, i)
    /\ lastEvent' = "resume"
    /\ UNCHANGED <<inputText, summaryLength, clipboard, apiKey, apiCalled>>

----------------------------------------------------------------------------
(* SummaryOutput *)

\* setTimeout(() => setCopied(false), 2000): the delay in milliseconds.
CopiedResetDelay == 2000

\* handleCopy, the onClick of the copy button of a mounted SummaryOutput.
handleCopy ==
    /\ Mounted(summary, isLoading)
    /\ MicrotasksIdle
    /\ Len(timers) < MaxTimers
    /\ clipboard' = summary
    /\ copied' = TRUE
    /\ timers' = Append(timers, [remaining |-> CopiedResetDelay, live |-> TRUE])
    /\ lastEvent' = "copy"
    /\ UNCHANGED <<appVars, calls, apiKey, apiCalled>>

\* The callback of a timer that is due: setCopied(false) on the instance that
\* set it, nothing if that instance is gone.
TimerFire(i) ==
    /\ timers[i].remaining = 0
    /\ MicrotasksIdle
    /\ copied' = IF timers[i].live THEN FALSE ELSE copied
    /\ timers' = RemoveAt(timers, i)
    /\ lastEvent' = "timer"
    /\ UNCHANGED <<appVars, clipboard, calls, apiKey, apiCalled>>

\* The spans of time the model lets pass in one step.
TickSteps == {CopiedResetDelay \div 2, CopiedResetDelay}

\* Time passes, up to the next deadline: a due timer runs before more passes.
Tick(d) ==
    /\ timers # <<>>
    /\ MicrotasksIdle
    /\ \A i \in 1..Len(timers) : timers[i].remaining >= d
    /\ timers' = [i \in 1..Len(timers) |->
                     [timers[i] EXCEPT !.remaining = timers[i].remaining - d]]
    /\ lastEvent' = "tick"
    /\ UNCHANGED <<appVars, copied, clipboard, calls, apiKey, apiCalled>>

----------------------------------------------------------------------------
(* Specifications *)

Init ==
    /\ inputText = ""
    /\ summary = ""
    /\ isLoading = FALSE
    /\ error = ""
    /\ summaryLength = "medium"
    /\ copied = FALSE
    /\ timers = <<>>
    /\ clipboard = ""
    /\ calls = <<>>
    /\ apiKey \in ApiKeys
    /\ apiCalled = FALSE
    /\ lastEvent = "init"

EditInput == \E t \in Texts : SetInputText(t)

SelectLength == \E len \in SummaryLengths : SetSummaryLength(len)

ApiAnswer == \E i \in 1..Len(calls) : \E text \in ApiTexts : ApiRespond(i, text)

ApiFailure == \E i \in 1..Len(calls) : \E e \in ApiExceptions : ApiThrow(i, e)

StubAnswer == \E i \in 1..Len(calls) : \E o \in StubOutcomes : StubSettle(i, o)

Continue == \E i \in 1..Len(calls) : Resume(i)

Timeout == \E i \in 1..Len(timers) : TimerFire(i)

TimePasses == \E d \in TickSteps : Tick(d)

\* The events of the App component that every specification has.
Controller ==
    \/ EditInput
    \/ SelectLength
    \/ Continue

\* The events of the SummaryOutput component.
CopyIndicator ==
    \/ handleCopy
    \/ Timeout
    \/ TimePasses

Common == Controller \/ CopyIndicator

\* The application as shipped: the button is the only caller of handleSubmit.
Next ==
    \/ Common
    \/ ClickSubmit
    \/ ApiAnswer
    \/ ApiFailure

Spec == Init /\ [][Next]_vars

\* The outbound call ends, and a continuation that can run does run.
FairSpec == Spec /\ WF_vars(ApiAnswer \/ ApiFailure) /\ WF_vars(Continue)

\* handleSubmit exercised as a function, with or without the button, in an App
\* whose summary panel is left alone.
NextHandler ==
    \/ Controller
    \/ ClickSubmit
    \/ InvokeSubmit
    \/ ApiAnswer
    \/ ApiFailure

SpecHandler == Init /\ [][NextHandler]_vars

\* The application wired to the stand-in client.
NextStub ==
    \/ Common
    \/ ClickSubmitStub
    \/ StubAnswer

SpecStub == Init /\ [][NextStub]_vars

----------------------------------------------------------------------------
(* Properties *)

\* C1: at most one summarizeText call is in flight, isLoading is true exactly
\* while it is, and while isLoading is true no click on the submit button is
\* delivered, so no second call starts and no field changes.
C1_SingleFlight ==
    /\ Len(calls) <= 1
    /\ isLoading <=> (Len(calls) = 1)
    /\ isLoading => ~ENABLED ClickSubmit

\* C1 witness: a call is in flight and the input alone would enable the button.
C1_Witness ==
    isLoading /\ Len(calls) = 1 /\ calls[1].pc = "api" /\ trim(inputText) # ""

\* C2: summary and error are never both non-empty.
C2_Exclusive == ~(summary # "" /\ error # "")

\* C2 witness: an error shown after an earlier summary (which was copied) is gone.
C2_Witness ==
    error # "" /\ summary = "" /\ clipboard # "" /\ lastEvent = "resume"

\* C3: a handleSubmit run on an input that is empty after trimming starts no
\* call, leaves isLoading false and sets the validation message.
C3_BlankSubmit ==
    [][(lastEvent' = "submit" /\ trim(inputText) = "")
        => /\ error' = "Please enter some text to summarize."
           /\ ~isLoading /\ ~isLoading'
           /\ calls' = calls
           /\ apiCalled' = apiCalled]_vars

\* C3 witness: handleSubmit has just run on a whitespace-only input.
C3_Witness ==
    /\ lastEvent = "submit" /\ inputText # "" /\ trim(inputText) = ""
    /\ error = "Please enter some text to summarize." /\ ~isLoading

C4_Failing(o) ==
    \/ o.kind = "reject"
    \/ o.kind = "resolve"
       /\ (startsWith(o.val, "Failed") \/ startsWith(o.val, "An unknown error"))

C4_Message(o) ==
    IF o.kind = "resolve" THEN o.val
    ELSE IF o.exc.isError THEN o.exc.message
    ELSE "An unexpected error occurred."

\* C4: when the awaited call resolves with a failure-prefixed string or rejects,
\* handleSubmit ends with isLoading false, summary empty and error equal to the
\* resolved string, the exception's message, or the generic fallback.
C4_FailureEndsInError ==
    [][(Len(calls) = 1 /\ calls[1].pc = "settled" /\ lastEvent' = "resume"
        /\ C4_Failing(calls[1].settled))
        => /\ isLoading' = FALSE
           /\ summary' = ""
           /\ error' = C4_Message(calls[1].settled)]_vars

\* C4 witness: the call resolved with the failure string of a timeout.
C4_Witness ==
    /\ lastEvent = "resume" /\ ~isLoading /\ summary = ""
    /\ error = "Failed to generate summary. Error: timeout"

\* C5: when the awaited call resolves with a string that has neither failure
\* prefix, handleSubmit ends with isLoading false, summary equal to that string
\* and error empty.
C5_SuccessKeepsText ==
    [][(Len(calls) = 1 /\ calls[1].pc = "settled" /\ lastEvent' = "resume"
        /\ calls[1].settled.kind = "resolve"
        /\ ~startsWith(calls[1].settled.val, "Failed")
        /\ ~startsWith(calls[1].settled.val, "An unknown error"))
        => /\ isLoading' = FALSE
           /\ summary' = calls[1].settled.val
           /\ error' = ""]_vars

\* C5 witness: the model's text is shown as the summary.
C5_Witness ==
    /\ lastEvent = "resume" /\ ~isLoading /\ error = ""
    /\ summary = "This is a summary."

\* C6: summarizeText never rejects: a caught Error resolves to the failure
\* prefix followed by its message, any other thrown value to the generic
\* string, and without a credential the call fails at once and no request is
\* ever sent.
C6_NeverRejects ==
    /\ \A i \in 1..Len(calls) :
        /\ calls[i].settled.kind # "reject"
        /\ calls[i].pc = "settled" =>
            /\ calls[i].settled.kind = "resolve"
            /\ calls[i].caught.isError =>
                 calls[i].settled.val
                    = "Failed to generate summary. Error: " \o calls[i].caught.message
            /\ calls[i].caught = NonError =>
                 calls[i].settled.val
                    = "An unknown error occurred while generating the summary."
        /\ apiKey = "" =>
            /\ calls[i].pc = "settled"
            /\ ~calls[i].outbound
            /\ calls[i].caught.isError
            /\ calls[i].caught.message = "API_KEY environment variable is not set."
    /\ apiKey = "" => ~apiCalled

\* C6 witness: the outbound call threw Error("timeout") and the call resolved.
C6_Witness ==
    \E i \in 1..Len(calls) :
        /\ calls[i].pc = "settled" /\ calls[i].outbound
        /\ calls[i].caught = ErrorOf("timeout")
        /\ calls[i].settled = Resolved("Failed to generate summary. Error: timeout")

\* C7 as claimed: while isLoading is true (and no continuation is about to
\* run) an edit of inputText is an enabled action.
C7_TextareaEditableWhileLoading ==
    (isLoading /\ MicrotasksIdle) => ENABLED EditInput

\* C7 as amended: while isLoading is true the textarea is disabled together
\* with the submit button, so neither an edit of inputText nor a submit is
\* enabled; the length buttons stay usable.
C7_TextareaDisabledWhileLoading ==
    isLoading =>
        /\ ~ENABLED EditInput
        /\ ~ENABLED ClickSubmit
        /\ MicrotasksIdle => ENABLED SelectLength

\* C7 witness: a request is in flight.
C7_Witness ==
    isLoading /\ Len(calls) = 1 /\ calls[1].pc = "api" /\ lastEvent = "length"

\* C8: after a copy action the indicator is true until 2 seconds after that
\* action: while a timer set by the mounted SummaryOutput is not yet due,
\* copied is true.
C8_CopiedForTwoSeconds ==
    \A i \in 1..Len(timers) :
        (timers[i].live /\ timers[i].remaining > 0) => copied

\* C9: while isLoading is true summary and error are both empty, from whatever
\* state the request was started.
C9_LoadingClean == isLoading => (summary = "" /\ error = "")

\* C9 witness: a request has just been started from a state that showed a
\* summary (which had been copied).
C9_Witness ==
    isLoading /\ lastEvent = "submit" /\ clipboard # "" /\ summary = ""

\* C10: every Loading state is followed by a state with isLoading false; with
\* isLoading false and a non-blank input a submit is accepted; and a call only
\* ever starts in a submit (nothing is retried).
C10_NotStuck ==
    /\ isLoading ~> ~isLoading
    /\ []((~isLoading /\ trim(inputText) # "") => ENABLED ClickSubmit)
    /\ [][(Len(calls') > Len(calls) \/ (apiCalled' /\ ~apiCalled))
            => lastEvent' = "submit"]_vars

\* C10 witness: a request has failed and the next submit is accepted.
C10_Witness ==
    /\ lastEvent = "resume" /\ ~isLoading /\ error # "" /\ calls = <<>>
    /\ trim(inputText) # "" /\ ENABLED ClickSubmit

====
